---- MODULE Spec2Model ----
(***************************************************************************)
(* PipelineBuilderStack (tools/pipeline-builder/pipeline_builder_stack.py) *)
(* as a state machine: the deployment of the declared resources in an      *)
(* order that respects their dependencies, the authorization of requests   *)
(* against the declared IAM statements, and the execution of the build     *)
(* project's build-spec by the builds that POST /project starts.           *)
(***************************************************************************)
EXTENDS Naturals, Sequences, FiniteSets, TLC

VARIABLES created, authz, status, pc, env, cwd, archive, files, log, published

vars ==
  <<created, authz, status, pc, env, cwd, archive, files, log, published>>

buildVars == <<status, pc, env, cwd, archive, files, log, published>>

-----------------------------------------------------------------------------
(* The resource graph declared by PipelineBuilderStack.__init__.            *)

Bucket == "ProjectArtifactsBucket"

Domain == "ArtifactDomain"

Repository == "ArtifactRepository"

BuildProject == "BuildProject"

Secret == "GitHubPATSecret"

Layer == "PipelineBuilderLayer"

Function == "PipelineBuilderLambda"

Api == "PipelineBuilderApi"

ProjectResource == "PipelineBuilderApi/project"

PostMethod == "PipelineBuilderApi/project/POST"

\* The constructs the stack creates. GitLayer is imported by ARN
\* (from_layer_version_arn) and is not created by the deployment. The roles
\* and policies behind the grants are created by the constructs they belong
\* to and are not resources of their own here.
Resources ==
  {Bucket, Domain, Repository, BuildProject, Secret, Layer, Function, Api,
   ProjectResource, PostMethod}

ResourceType(r) ==
  CASE r = Bucket -> "AWS::S3::Bucket"
    [] r = Domain -> "AWS::CodeArtifact::Domain"
    [] r = Repository -> "AWS::CodeArtifact::Repository"
    [] r = BuildProject -> "AWS::CodeBuild::Project"
    [] r = Secret -> "AWS::SecretsManager::Secret"
    [] r = Layer -> "AWS::Lambda::LayerVersion"
    [] r = Function -> "AWS::Lambda::Function"
    [] r = Api -> "AWS::ApiGateway::RestApi"
    [] r = ProjectResource -> "AWS::ApiGateway::Resource"
    [] r = PostMethod -> "AWS::ApiGateway::Method"

\* The attributes of other constructs each construct's properties read.
References(r) ==
  CASE r = Repository ->
         {[target |-> Domain, attr |-> "domain_name"]}
    [] r = BuildProject ->
         {[target |-> Repository, attr |-> "domain_name"],
          [target |-> Repository, attr |-> "repository_name"]}
    [] r = Function ->
         {[target |-> Bucket, attr |-> "bucket_name"],
          [target |-> Secret, attr |-> "secret_arn"],
          [target |-> BuildProject, attr |-> "project_name"],
          [target |-> Layer, attr |-> "layer_version_arn"]}
    [] r = ProjectResource ->
         {[target |-> Api, attr |-> "root"]}
    [] r = PostMethod ->
         {[target |-> ProjectResource, attr |-> "resource_id"],
          [target |-> Function, attr |-> "function_arn"]}
    [] OTHER -> {}

\* Attributes whose value exists only once the target is created: the bucket,
\* the secret, the build project, the layer, the function and the API are
\* declared without a name or identifier, so these are generated by the
\* deployment. domain_name and repository_name of the Cfn constructs are the
\* literal strings given at lines 27 and 32 and order nothing.
DeployTimeAttributes ==
  {"bucket_name", "secret_arn", "project_name", "layer_version_arn",
   "function_arn", "root", "resource_id"}

ExplicitDependenciesMissing(r) == {}

\* add_dependency calls.
ExplicitDependencies(r) ==
  IF r = Repository THEN {Domain} ELSE {}

BuildProjectReadsRepositoryArn(r) ==
  {x.target : x \in {y \in References(r) : y.attr \in DeployTimeAttributes}}
    \cup (IF r = BuildProject THEN {Repository} ELSE {})

\* A reference to a deploy-time attribute orders the reader after its target.
ImplicitDependencies(r) ==
  {x.target : x \in {y \in References(r) : y.attr \in DeployTimeAttributes}}

DependsOn(r) == ExplicitDependencies(r) \cup ImplicitDependencies(r)

CanCreate(r) == r \notin created /\ DependsOn(r) \subseteq created

Deployed == created = Resources

-----------------------------------------------------------------------------
(* The IAM statements the stack attaches, and their evaluation.             *)

FunctionRole == "PipelineBuilderLambda/ServiceRole"

BuildProjectRole == "BuildProject/Role"

ApiGatewayPrincipal == "apigateway.amazonaws.com"

BuildProjectArn == "arn:aws:codebuild:::project/BuildProject"

BucketArn == "arn:aws:s3:::ProjectArtifactsBucket"

BucketObjectsArn == "arn:aws:s3:::ProjectArtifactsBucket/*"

SecretArn == "arn:aws:secretsmanager:::secret:GitHubPATSecret"

FunctionArn == "arn:aws:lambda:::function:PipelineBuilderLambda"

NoCondition == [test |-> "None", key |-> "", values |-> {}]

StartBuildStatementAnyResource ==
  [principal |-> FunctionRole, effect |-> "Allow",
   actions |-> {<<"codebuild", "StartBuild">>},
   resources |-> {"*"}, condition |-> NoCondition]

StartBuildStatement ==
  [principal |-> FunctionRole, effect |-> "Allow",
   actions |-> {<<"codebuild", "StartBuild">>},
   resources |-> {BuildProjectArn}, condition |-> NoCondition]

CodeArtifactStatement ==
  [principal |-> BuildProjectRole, effect |-> "Allow",
   actions |-> {<<"codeartifact", "*">>},
   resources |-> {"*"}, condition |-> NoCondition]

BearerTokenStatementUnconditioned ==
  [principal |-> BuildProjectRole, effect |-> "Allow",
   actions |-> {<<"sts", "GetServiceBearerToken">>},
   resources |-> {"*"}, condition |-> NoCondition]

BearerTokenStatement ==
  [principal |-> BuildProjectRole, effect |-> "Allow",
   actions |-> {<<"sts", "GetServiceBearerToken">>},
   resources |-> {"*"},
   condition |-> [test |-> "StringEquals", key |-> "sts:AWSServiceName",
                  values |-> {"codeartifact.amazonaws.com"}]]

\* The object and bucket operations grant_read_write stands for.
BucketReadWriteActions ==
  {<<"s3", "GetObject">>, <<"s3", "ListBucket">>, <<"s3", "PutObject">>,
   <<"s3", "DeleteObject">>}

\* The operations grant_read stands for.
SecretReadActions ==
  {<<"secretsmanager", "GetSecretValue">>,
   <<"secretsmanager", "DescribeSecret">>}

GrantReadWrite(principal) ==
  [principal |-> principal, effect |-> "Allow",
   actions |-> BucketReadWriteActions,
   resources |-> {BucketArn, BucketObjectsArn}, condition |-> NoCondition]

GrantReadTo(principal) ==
  [principal |-> principal, effect |-> "Allow",
   actions |-> SecretReadActions,
   resources |-> {SecretArn}, condition |-> NoCondition]

SecretGrantToBuildProject == GrantReadTo(BuildProjectRole)

SecretGrant == GrantReadTo(FunctionRole)

InvokeGrant ==
  [principal |-> ApiGatewayPrincipal, effect |-> "Allow",
   actions |-> {<<"lambda", "InvokeFunction">>},
   resources |-> {FunctionArn}, condition |-> NoCondition]

PolicyStatements ==
  {StartBuildStatement, CodeArtifactStatement, BearerTokenStatement,
   GrantReadWrite(FunctionRole), GrantReadWrite(BuildProjectRole),
   SecretGrant, InvokeGrant}

ActionMatches(pattern, action) ==
  pattern[1] = action[1] /\ (pattern[2] = "*" \/ pattern[2] = action[2])

ResourceMatches(pattern, resource) == pattern = "*" \/ pattern = resource

\* A StringEquals test on a key the request does not carry ("") fails.
ConditionHolds(c, serviceName) ==
  c.test = "None" \/ (c.test = "StringEquals" /\ serviceName \in c.values)

StatementApplies(s, req) ==
  /\ s.principal = req.principal
  /\ \E p \in s.actions : ActionMatches(p, req.action)
  /\ \E p \in s.resources : ResourceMatches(p, req.resource)
  /\ ConditionHolds(s.condition, req.serviceName)

\* Default deny: a request is allowed when an Allow statement applies and no
\* Deny statement does.
Decision(req) ==
  IF /\ \E s \in PolicyStatements : s.effect = "Allow" /\ StatementApplies(s, req)
     /\ ~\E s \in PolicyStatements : s.effect = "Deny" /\ StatementApplies(s, req)
  THEN "Allow"
  ELSE "Deny"

Allowed(principal, action, resource, serviceName) ==
  Decision([principal |-> principal, action |-> action,
            resource |-> resource, serviceName |-> serviceName]) = "Allow"

\* The requests the authorization is exercised with.
Principals ==
  {FunctionRole, BuildProjectRole, ApiGatewayPrincipal, "events.amazonaws.com"}

Actions ==
  {<<"codebuild", "StartBuild">>, <<"codebuild", "StopBuild">>,
   <<"codeartifact", "GetAuthorizationToken">>,
   <<"codeartifact", "PublishPackageVersion">>,
   <<"sts", "GetServiceBearerToken">>, <<"sts", "AssumeRole">>,
   <<"s3", "GetObject">>, <<"s3", "PutObject">>, <<"s3", "DeleteBucket">>,
   <<"secretsmanager", "GetSecretValue">>,
   <<"secretsmanager", "PutSecretValue">>,
   <<"lambda", "InvokeFunction">>, <<"logs", "PutLogEvents">>}

ResourceArns ==
  {BuildProjectArn, "arn:aws:codebuild:::project/OtherProject",
   BucketArn, BucketObjectsArn, "arn:aws:s3:::OtherBucket",
   SecretArn, "arn:aws:secretsmanager:::secret:OtherSecret",
   FunctionArn, "arn:aws:codeartifact:::domain/industry-toolkit-experimental"}

ServiceNames == {"", "codeartifact.amazonaws.com", "codecommit.amazonaws.com"}

Requests ==
  [principal : Principals, action : Actions, resource : ResourceArns,
   serviceName : ServiceNames]

NoRequest ==
  [principal |-> "", action |-> <<"", "">>, resource |-> "", serviceName |-> ""]

-----------------------------------------------------------------------------
(* The build-spec of the build project.                                     *)

Cmd(text, kind, name, path) ==
  [text |-> text, kind |-> kind, name |-> name, path |-> path]

\* Each command with its text, what the shell does with it (run a program,
\* cd, assign a command substitution, export one), the program or variable
\* it names, and the path it takes split at "/". The source writes each
\* command substitution in backquotes; a string of this module cannot hold
\* one, so the text shows it in the equivalent $(...) form.
PreBuildCommands ==
  << Cmd("aws --version", "run", "aws --version", <<>>),
     Cmd("export CODEARTIFACT_AUTH_TOKEN=$(aws codeartifact get-authorization-token --domain ${CODEARTIFACT_DOMAIN} --query authorizationToken --output text)",
         "export", "CODEARTIFACT_AUTH_TOKEN", <<>>),
     Cmd("AWS_ACCOUNT_ID=$(aws sts get-caller-identity --query Account --output text)",
         "assign", "AWS_ACCOUNT_ID", <<>>),
     Cmd("BASE_DIR=$(pwd)", "assign", "BASE_DIR", <<>>),
     Cmd("UNZIP_DIR=$(/usr/bin/uuidgen)", "assign", "UNZIP_DIR", <<>>) >>

BuildCommands ==
  << Cmd("aws s3 cp ${PROJECT_S3_ZIP} project.zip", "run", "aws s3 cp",
         <<"project.zip">>),
     Cmd("unzip project.zip -d ${UNZIP_DIR}", "run", "unzip",
         <<"${UNZIP_DIR}">>),
     Cmd("cd ${UNZIP_DIR}", "cd", "cd", <<"${UNZIP_DIR}">>),
     Cmd("PROJECT_NAME=$(ls -1 | head -1)", "assign", "PROJECT_NAME", <<>>),
     Cmd("cd ${PROJECT_NAME}", "cd", "cd", <<"${PROJECT_NAME}">>),
     Cmd("./gradlew build", "run", "./gradlew build", <<>>),
     Cmd("cd build/generated-sdk/typescript", "cd", "cd",
         <<"build", "generated-sdk", "typescript">>),
     Cmd("npm install", "run", "npm install", <<>>),
     Cmd("npm run build", "run", "npm run build", <<>>),
     Cmd("cp package.json dist/", "run", "cp", <<"dist">>),
     Cmd("cd dist", "cd", "cd", <<"dist">>),
     Cmd("aws codeartifact login --tool npm --repository ${CODEARTIFACT_REPOSITORY} --domain ${CODEARTIFACT_DOMAIN}",
         "run", "aws codeartifact login", <<>>),
     Cmd("npm publish", "run", "npm publish", <<>>),
     Cmd("cd ${BASE_DIR}/${UNZIP_DIR}/${PROJECT_NAME}", "cd", "cd",
         <<"${BASE_DIR}", "${UNZIP_DIR}", "${PROJECT_NAME}">>),
     Cmd("cd build/generated-sdk/java", "cd", "cd",
         <<"build", "generated-sdk", "java">>),
     Cmd("chmod +x gradlew", "run", "chmod", <<"gradlew">>),
     Cmd("sed -i '/publishing {/r ../../../codeartifact-maven-repo.txt' build.gradle",
         "run", "sed", <<"..", "..", "..", "codeartifact-maven-repo.txt">>),
     Cmd("./gradlew build", "run", "./gradlew build", <<>>),
     Cmd("./gradlew publish", "run", "./gradlew publish", <<>>) >>

PhaseCommands(phase) ==
  CASE phase = "pre_build" -> PreBuildCommands
    [] phase = "build" -> BuildCommands

PhaseOrderBuildFirst == <<"build", "pre_build">>

\* The build service runs the declared phases in its fixed order.
PhaseOrder == <<"pre_build", "build">>

Script == PhaseCommands(PhaseOrder[1]) \o PhaseCommands(PhaseOrder[2])

\* The environment variables the project passes to every build.
EnvironmentVariables ==
  [CODEARTIFACT_DOMAIN |-> "industry-toolkit-experimental",
   CODEARTIFACT_REPOSITORY |-> "industry-toolkit-experimental"]

ConcurrentBuildLimitOne == "ONE"

\* The project is declared without concurrent_build_limit.
ConcurrentBuildLimit == "NONE"

OnFailureContinue == "CONTINUE"

\* No phase declares on-failure, so a failed command aborts the build.
OnFailure == "ABORT"

-----------------------------------------------------------------------------
(* The shell the build service runs the commands in.                        *)

\* The two requests whose builds run side by side.
Builds == {"request-1", "request-2"}

\* The most top-level entries an uploaded archive holds.
MaxEntries == 2

\* Entry names, in the order ls lists them.
NamePool == <<"alpha", "my-project", "omega", "zeta">>

ArchiveEntries == {NamePool[i] : i \in 1..MaxEntries}

Uuids == {"uuid-a", "uuid-b"}

\* The directory a build starts in, and the home directory of the image.
SrcDir == <<"codebuild", "output", "src">>

Home == <<"root">>

NoEnv ==
  [CODEARTIFACT_AUTH_TOKEN |-> "", AWS_ACCOUNT_ID |-> "", BASE_DIR |-> <<>>,
   UNZIP_DIR |-> "", PROJECT_NAME |-> ""]

Rank(name) == CHOOSE i \in 1..Len(NamePool) : NamePool[i] = name

RECURSIVE LsSorted(_)
\* ls -1: the names of a directory, one a line, sorted.
LsSorted(names) ==
  IF names = {} THEN <<>>
  ELSE LET first == CHOOSE x \in names : \A y \in names : Rank(x) <= Rank(y)
       IN  <<first>> \o LsSorted(names \ {first})

\* head -1: the first line, or nothing.
Head1(lines) == IF lines = <<>> THEN "" ELSE lines[1]

PipelineStatusExactlyOne(lines) == IF Len(lines) = 1 THEN "ok" ELSE "fail"

\* The status of `ls -1 | head -1` is head's, which succeeds on any input.
PipelineStatus(lines) == "ok"

IsPrefix(p, q) == Len(p) <= Len(q) /\ SubSeq(q, 1, Len(p)) = p

DirEntries(fs, dir) ==
  {f.path[Len(dir) + 1] :
     f \in {g \in fs : Len(g.path) = Len(dir) + 1 /\ IsPrefix(dir, g.path)}}

ExpandPart(part, e) ==
  CASE part = "${BASE_DIR}" -> e.BASE_DIR
    [] part = "${UNZIP_DIR}" ->
         IF e.UNZIP_DIR = "" THEN <<>> ELSE <<e.UNZIP_DIR>>
    [] part = "${PROJECT_NAME}" ->
         IF e.PROJECT_NAME = "" THEN <<>> ELSE <<e.PROJECT_NAME>>
    [] OTHER -> <<part>>

RECURSIVE Expand(_, _)
Expand(parts, e) ==
  IF parts = <<>> THEN <<>>
  ELSE ExpandPart(Head(parts), e) \o Expand(Tail(parts), e)

\* BASE_DIR holds the output of pwd, which starts at the root.
IsAbsolute(parts) == parts # <<>> /\ parts[1] = "${BASE_DIR}"

\* An unquoted word that expands to nothing is no argument at all.
IsEmptyWord(parts, e) == Len(parts) = 1 /\ Expand(parts, e) = <<>>

RECURSIVE NormalizeFrom(_, _)
NormalizeFrom(acc, rest) ==
  IF rest = <<>> THEN acc
  ELSE IF Head(rest) = ".."
       THEN NormalizeFrom(IF acc = <<>> THEN <<>>
                          ELSE SubSeq(acc, 1, Len(acc) - 1), Tail(rest))
       ELSE NormalizeFrom(Append(acc, Head(rest)), Tail(rest))

ResolvePath(cur, parts, e) ==
  NormalizeFrom(<<>>, IF IsAbsolute(parts) THEN Expand(parts, e)
                      ELSE cur \o Expand(parts, e))

ChangeDirAlwaysRelative(cur, parts, e) ==
  IF IsEmptyWord(parts, e) THEN Home
  ELSE NormalizeFrom(<<>>, cur \o Expand(parts, e))

\* cd: to the home directory without an argument, else to the path given.
ChangeDir(cur, parts, e) ==
  IF IsEmptyWord(parts, e) THEN Home ELSE ResolvePath(cur, parts, e)

\* Inside an extracted top-level entry of the archive.
InsideEntry(fs, path) ==
  \E f \in fs : f.origin = "archive" /\ IsPrefix(f.path, path)

\* What an archive holds below its top-level entries is not known, and the
\* build tools write there: a path inside an entry may or may not exist. Outside
\* the entries the image holds only what the script itself created.
MayExist(fs, path) ==
  \/ path \in {Home, SrcDir}
  \/ \E f \in fs : f.path = path
  \/ InsideEntry(fs, path)

LocalPrograms == {"./gradlew build", "./gradlew publish"}

UuidgenRepeats(b) == Uuids

\* uuidgen: an identifier no other build has drawn.
Uuidgen(b) == Uuids \ {env[o].UNZIP_DIR : o \in Builds \ {b}}

Current(b) == Script[pc[b]]

\* What the command substitution of the current assignment can print.
SubstitutionOutputs(b) ==
  CASE Current(b).name = "AWS_ACCOUNT_ID" -> {"account"}
    [] Current(b).name = "BASE_DIR" -> {cwd[b]}
    [] Current(b).name = "UNZIP_DIR" -> Uuidgen(b)
    [] Current(b).name = "PROJECT_NAME" ->
         {Head1(LsSorted(DirEntries(files[b], cwd[b])))}

\* The exit statuses the current command of build b can end with.
Outcomes(b) ==
  LET c == Current(b) IN
  CASE c.kind = "export" -> {"ok"}
    [] c.kind = "assign" ->
         IF c.name = "PROJECT_NAME"
         THEN {PipelineStatus(LsSorted(DirEntries(files[b], cwd[b])))}
         ELSE IF c.name = "BASE_DIR" THEN {"ok"}
         ELSE {"ok", "fail"}
    [] c.kind = "cd" ->
         IF IsEmptyWord(c.path, env[b]) THEN {"ok"}
         ELSE IF MayExist(files[b], ChangeDir(cwd[b], c.path, env[b]))
              THEN {"ok", "fail"}
              ELSE {"fail"}
    [] c.kind = "run" ->
         IF c.name \in LocalPrograms /\ ~InsideEntry(files[b], cwd[b])
         THEN {"fail"}
         ELSE {"ok", "fail"}

Logged(b, outcome) ==
  log' = [log EXCEPT ![b] =
            Append(@, [index |-> pc[b], cwd |-> cwd[b], outcome |-> outcome])]

Advance(b) ==
  /\ pc' = [pc EXCEPT ![b] = @ + 1]
  /\ status' = [status EXCEPT ![b] =
                  IF pc[b] + 1 > Len(Script) THEN "SUCCEEDED" ELSE "IN_PROGRESS"]

-----------------------------------------------------------------------------
(* The actions.                                                             *)

NoDecision == [request |-> NoRequest, decision |-> "None"]

Init ==
  /\ created = {}
  /\ authz = NoDecision
  /\ status = [b \in Builds |-> "NOT_STARTED"]
  /\ pc = [b \in Builds |-> 1]
  /\ env = [b \in Builds |-> NoEnv]
  /\ cwd = [b \in Builds |-> SrcDir]
  /\ archive = [b \in Builds |-> {}]
  /\ files = [b \in Builds |-> {}]
  /\ log = [b \in Builds |-> <<>>]
  /\ published = {}

\* The deployment creates a resource whose dependencies exist.
Create(r) ==
  /\ CanCreate(r)
  /\ created' = created \cup {r}
  /\ UNCHANGED <<authz, buildVars>>

\* A request is evaluated against the attached statements.
Authorize(req) ==
  /\ authz' = [request |-> req, decision |-> Decision(req)]
  /\ UNCHANGED <<created, buildVars>>

Admits ==
  ConcurrentBuildLimit = "NONE" \/ \A o \in Builds : status[o] # "IN_PROGRESS"

\* POST /project: the gateway invokes the function, which uploads an archive
\* and starts a build of the project.
Request(b) ==
  /\ Deployed
  /\ status[b] = "NOT_STARTED"
  /\ Allowed(ApiGatewayPrincipal, <<"lambda", "InvokeFunction">>, FunctionArn, "")
  /\ Allowed(FunctionRole, <<"s3", "PutObject">>, BucketObjectsArn, "")
  /\ Allowed(FunctionRole, <<"codebuild", "StartBuild">>, BuildProjectArn, "")
  /\ Admits
  /\ \E entries \in SUBSET ArchiveEntries :
       archive' = [archive EXCEPT ![b] = entries]
  /\ status' = [status EXCEPT ![b] = "IN_PROGRESS"]
  /\ UNCHANGED <<created, authz, pc, env, cwd, files, log, published>>

\* The current command exits non-zero.
Fail(b) ==
  /\ status[b] = "IN_PROGRESS"
  /\ "fail" \in Outcomes(b)
  /\ Logged(b, "fail")
  /\ IF OnFailure = "ABORT"
     THEN status' = [status EXCEPT ![b] = "FAILED"] /\ pc' = pc
     ELSE Advance(b)
  /\ UNCHANGED <<created, authz, env, cwd, archive, files, published>>

\* A program runs and exits zero.
RunCommand(b) ==
  /\ status[b] = "IN_PROGRESS"
  /\ Current(b).kind = "run"
  /\ "ok" \in Outcomes(b)
  /\ Logged(b, "ok")
  /\ Advance(b)
  /\ files' = [files EXCEPT ![b] =
       CASE Current(b).name = "aws s3 cp" ->
              @ \cup {[path |-> cwd[b] \o Current(b).path, origin |-> "download"]}
         [] Current(b).name = "unzip" ->
              LET dir == ResolvePath(cwd[b], Current(b).path, env[b]) IN
              @ \cup {[path |-> dir, origin |-> "unzip"]}
                \cup {[path |-> Append(dir, e), origin |-> "archive"] :
                        e \in archive[b]}
         [] OTHER -> @]
  /\ published' =
       IF Current(b).name \in {"npm publish", "./gradlew publish"}
       THEN published \cup
              {[build |-> b, command |-> Current(b).name,
                repository |-> EnvironmentVariables.CODEARTIFACT_REPOSITORY,
                project |-> env[b].PROJECT_NAME]}
       ELSE published
  /\ UNCHANGED <<created, authz, env, cwd, archive>>

\* cd succeeds.
ChangeDirectory(b) ==
  /\ status[b] = "IN_PROGRESS"
  /\ Current(b).kind = "cd"
  /\ "ok" \in Outcomes(b)
  /\ Logged(b, "ok")
  /\ Advance(b)
  /\ cwd' = [cwd EXCEPT ![b] = ChangeDir(@, Current(b).path, env[b])]
  /\ UNCHANGED <<created, authz, env, archive, files, published>>

\* VAR=$(command): the variable takes the command's output.
Assign(b) ==
  /\ status[b] = "IN_PROGRESS"
  /\ Current(b).kind = "assign"
  /\ "ok" \in Outcomes(b)
  /\ Logged(b, "ok")
  /\ Advance(b)
  /\ \E output \in SubstitutionOutputs(b) :
       env' = [env EXCEPT ![b][Current(b).name] = output]
  /\ UNCHANGED <<created, authz, cwd, archive, files, published>>

\* export VAR=$(command): export's own status is the command's status, so
\* the command exits zero whatever the substitution did.
Export(b) ==
  /\ status[b] = "IN_PROGRESS"
  /\ Current(b).kind = "export"
  /\ "ok" \in Outcomes(b)
  /\ Logged(b, "ok")
  /\ Advance(b)
  /\ env' = [env EXCEPT ![b].CODEARTIFACT_AUTH_TOKEN = "exported"]
  /\ UNCHANGED <<created, authz, cwd, archive, files, published>>

Step(b) ==
  \/ Fail(b)
  \/ RunCommand(b)
  \/ ChangeDirectory(b)
  \/ Assign(b)
  \/ Export(b)

Next ==
  \/ \E r \in Resources : Create(r)
  \/ \E b \in Builds : Request(b)
  \/ \E b \in Builds : Step(b)

Spec == Init /\ [][Next]_vars

NextPolicy == \E req \in Requests : Authorize(req)

SpecPolicy == Init /\ [][NextPolicy]_vars

-----------------------------------------------------------------------------
(* Properties.                                                              *)

Repositories(rs) ==
  {r \in rs : ResourceType(r) = "AWS::CodeArtifact::Repository"}

\* C1: the stack declares exactly one package Repository, the Repository
\* declares a dependency on its Domain, and in every deployment order the
\* Repository exists only when the Domain already does; a finished deployment
\* has created exactly one Repository.
RepositoryAfterDomain ==
  /\ Cardinality(Repositories(Resources)) = 1
  /\ Domain \in ExplicitDependencies(Repository)
  /\ Repository \in created => Domain \in created
  /\ Deployed => Cardinality(Repositories(created)) = 1

RepositoryCreated == Repository \in created /\ ~Deployed

IsS3Copy(c) == c.kind = "run" /\ c.name = "aws s3 cp"

IsTokenExport(c) == c.kind = "export" /\ c.name = "CODEARTIFACT_AUTH_TOKEN"

Indices(b) == 1..Len(log[b])

Ran(b, i) == Script[log[b][i].index]

\* C2: the token export is a pre_build command and every aws s3 cp a build
\* command; in every build, an aws s3 cp runs only after the export of
\* CODEARTIFACT_AUTH_TOKEN has run, and a build that succeeds has run the
\* pre_build commands and then the build commands, each once, in order.
TokenExportBeforeS3Copy ==
  /\ \E i \in 1..Len(PreBuildCommands) : IsTokenExport(PreBuildCommands[i])
  /\ \A i \in 1..Len(PreBuildCommands) : ~IsS3Copy(PreBuildCommands[i])
  /\ \E i \in 1..Len(BuildCommands) : IsS3Copy(BuildCommands[i])
  /\ \A b \in Builds :
       /\ \A i \in Indices(b) :
            IsS3Copy(Ran(b, i)) =>
              \E j \in 1..(i - 1) :
                IsTokenExport(Ran(b, j)) /\ log[b][j].outcome = "ok"
       /\ status[b] = "SUCCEEDED" =>
            [i \in Indices(b) |-> Ran(b, i)] = PreBuildCommands \o BuildCommands

S3CopyRan == \E b \in Builds : \E i \in Indices(b) : IsS3Copy(Ran(b, i))

\* C3: a codebuild:StartBuild request of the function is allowed on the ARN
\* of the declared build project and denied on every other resource ARN.
StartBuildOnlyOnBuildProject ==
  (authz.request.principal = FunctionRole
     /\ authz.request.action = <<"codebuild", "StartBuild">>)
  => (authz.decision = "Allow" <=> authz.request.resource = BuildProjectArn)

StartBuildElsewhereDenied ==
  /\ authz.request.principal = FunctionRole
  /\ authz.request.action = <<"codebuild", "StartBuild">>
  /\ authz.request.resource = "arn:aws:codebuild:::project/OtherProject"
  /\ authz.decision = "Deny"

\* C4: an sts:GetServiceBearerToken request of the build project is allowed
\* when sts:AWSServiceName is codeartifact.amazonaws.com and denied for any
\* other service name, and when the request names no service.
BearerTokenOnlyForCodeArtifact ==
  (authz.request.principal = BuildProjectRole
     /\ authz.request.action = <<"sts", "GetServiceBearerToken">>)
  => (authz.decision = "Allow"
        <=> authz.request.serviceName = "codeartifact.amazonaws.com")

BearerTokenForOtherServiceDenied ==
  /\ authz.request.principal = BuildProjectRole
  /\ authz.request.action = <<"sts", "GetServiceBearerToken">>
  /\ authz.request.serviceName = "codecommit.amazonaws.com"
  /\ authz.decision = "Deny"

\* C5: in every build, only the last command run can have failed (nothing
\* runs after a failure, so no publish follows one), no command runs twice,
\* a build is FAILED exactly when its last command failed, everything a build
\* published was published by a command that succeeded, and the directory a
\* successful unzip created is still there, also after the build failed.
FailFast ==
  \A b \in Builds :
    /\ \A i \in Indices(b) : i < Len(log[b]) => log[b][i].outcome = "ok"
    /\ \A i, j \in Indices(b) : i < j => log[b][i].index < log[b][j].index
    /\ status[b] = "FAILED"
         <=> (log[b] # <<>> /\ log[b][Len(log[b])].outcome = "fail")
    /\ \A p \in {q \in published : q.build = b} :
         \E i \in Indices(b) :
           Ran(b, i).name = p.command /\ log[b][i].outcome = "ok"
    /\ (\E i \in Indices(b) :
          Ran(b, i).name = "unzip" /\ log[b][i].outcome = "ok")
         => \E f \in files[b] :
              /\ f.origin = "unzip"
              /\ f.path = Append(env[b].BASE_DIR, env[b].UNZIP_DIR)

FailedAfterUnzipBeforePublish ==
  \E b \in Builds :
    /\ status[b] = "FAILED"
    /\ \E f \in files[b] : f.origin = "unzip"
    /\ \A p \in published : p.build # b
    /\ Ran(b, Len(log[b])).name = "npm run build"

EnumeratedGrant(req) ==
  \/ /\ req.principal = FunctionRole
     /\ req.action = <<"codebuild", "StartBuild">>
     /\ req.resource = BuildProjectArn
  \/ /\ req.principal = FunctionRole
     /\ req.action \in {<<"secretsmanager", "GetSecretValue">>,
                        <<"secretsmanager", "DescribeSecret">>}
     /\ req.resource = SecretArn
  \/ /\ req.principal \in {FunctionRole, BuildProjectRole}
     /\ req.action \in {<<"s3", "GetObject">>, <<"s3", "ListBucket">>,
                        <<"s3", "PutObject">>, <<"s3", "DeleteObject">>}
     /\ req.resource \in {BucketArn, BucketObjectsArn}
  \/ /\ req.principal = BuildProjectRole
     /\ req.action[1] = "codeartifact"
  \/ /\ req.principal = BuildProjectRole
     /\ req.action = <<"sts", "GetServiceBearerToken">>
     /\ req.serviceName = "codeartifact.amazonaws.com"
  \/ /\ req.principal = ApiGatewayPrincipal
     /\ req.action = <<"lambda", "InvokeFunction">>
     /\ req.resource = FunctionArn

IsDiscovery(c) == c.kind = "assign" /\ c.name = "PROJECT_NAME"

FirstAlphabetically(names) ==
  IF names = {} THEN ""
  ELSE CHOOSE x \in names : \A y \in names : Rank(x) <= Rank(y)

PastDiscovery(b) ==
  /\ status[b] = "IN_PROGRESS"
  /\ \E i \in Indices(b) : IsDiscovery(Ran(b, i))

\* C7: whatever number of top-level entries the archive has, the discovery
\* step exits zero, leaves in PROJECT_NAME the alphabetically first entry of
\* the unzip directory (nothing when there is none), and the build goes on to
\* the next command.
DiscoveryUnvalidated ==
  \A b \in Builds : \A i \in Indices(b) :
    IsDiscovery(Ran(b, i)) =>
      /\ log[b][i].outcome = "ok"
      /\ env[b].PROJECT_NAME = FirstAlphabetically(archive[b])
      /\ pc[b] > log[b][i].index
      /\ status[b] = "FAILED" => i < Len(log[b])

DiscoveryPassedWithNoneAndWithSeveral ==
  \E b, o \in Builds :
    /\ PastDiscovery(b) /\ archive[b] = {}
    /\ PastDiscovery(o) /\ Cardinality(archive[o]) >= 2

UnderOwnUnzipDir(b) ==
  \A f \in files[b] :
    f.origin \in {"unzip", "archive"} =>
      /\ IsPrefix(Append(env[b].BASE_DIR, env[b].UNZIP_DIR), f.path)
      /\ \A o \in Builds \ {b} :
           ~IsPrefix(Append(env[o].BASE_DIR, env[o].UNZIP_DIR), f.path)

\* C8: nothing serializes the two builds: a request that has not started a
\* build can start one and a build in progress can run its next command
\* whatever the other build is doing; the two builds draw different unzip
\* directories and each build's extracted files lie under its own.
NoMutualExclusion ==
  \A b \in Builds :
    /\ (Deployed /\ status[b] = "NOT_STARTED") => ENABLED Request(b)
    /\ status[b] = "IN_PROGRESS" => ENABLED Step(b)
    /\ \A o \in Builds \ {b} :
         env[b].UNZIP_DIR # "" => env[b].UNZIP_DIR # env[o].UNZIP_DIR
    /\ UnderOwnUnzipDir(b)

AtPublish(b) ==
  /\ status[b] = "IN_PROGRESS"
  /\ Current(b).name = "npm publish"

BothPublishingTheSamePackage ==
  \E b, o \in Builds :
    /\ b # o
    /\ AtPublish(b) /\ AtPublish(o)
    /\ env[b].PROJECT_NAME = env[o].PROJECT_NAME
    /\ env[b].UNZIP_DIR # env[o].UNZIP_DIR

\* C9 as stated: every resource but the Repository can be created whatever
\* has been created so far.
AllButRepositoryIndependent ==
  \A r \in Resources \ created : r # Repository => CanCreate(r)

DeclaredOrder(r) ==
  CASE r = Repository -> {Domain}
    [] r = Function -> {Bucket, Secret, BuildProject, Layer}
    [] r = ProjectResource -> {Api}
    [] r = PostMethod -> {ProjectResource, Function}
    [] OTHER -> {}

\* C9 as amended: a resource can be created exactly when the resources it is
\* ordered after exist, and those are the Domain for the Repository, the
\* bucket, the secret, the build project and the code layer for the function,
\* the API for its project resource, and that resource and the function for
\* the POST method; the bucket, the domain, the secret, the build project,
\* the layer and the API can be created at any point.
OnlyDeclaredOrderings ==
  \A r \in Resources \ created :
    CanCreate(r) <=> DeclaredOrder(r) \subseteq created

FunctionBeforeDomain ==
  /\ Function \in created
  /\ Domain \notin created
  /\ Api \notin created
  /\ \A r \in {Domain, Api} : CanCreate(r)

ProjectDir(b) ==
  env[b].BASE_DIR \o <<env[b].UNZIP_DIR, env[b].PROJECT_NAME>>

\* C10: in every build, sed runs in
\* <BASE_DIR>/<UNZIP_DIR>/<PROJECT_NAME>/build/generated-sdk/java, where
\* ../../../codeartifact-maven-repo.txt is the file at the root of the project
\* directory; npm publish runs in build/generated-sdk/typescript/dist of the
\* project directory and ./gradlew publish in build/generated-sdk/java.
WorkingDirectories ==
  \A b \in Builds : \A i \in Indices(b) :
    LET c == Ran(b, i)
        dir == log[b][i].cwd
    IN  /\ c.name = "sed" =>
             /\ dir = ProjectDir(b) \o <<"build", "generated-sdk", "java">>
             /\ NormalizeFrom(<<>>, dir \o c.path)
                  = Append(ProjectDir(b), "codeartifact-maven-repo.txt")
        /\ c.name = "npm publish" =>
             dir = ProjectDir(b)
                     \o <<"build", "generated-sdk", "typescript", "dist">>
        /\ c.name = "./gradlew publish" =>
             dir = ProjectDir(b) \o <<"build", "generated-sdk", "java">>

BothPackagesPublished ==
  \E b \in Builds :
    /\ status[b] = "SUCCEEDED"
    /\ Cardinality({p \in published : p.build = b}) = 2

====
